---- MODULE Spec2Model ----
(***************************************************************************)
(* A model of the concurrent search engine of gif_compressor               *)
(* (src/src/main.rs): the Coordinator (optimize_gif), the Workers          *)
(* (process_strategy, run inside the thread closure of optimize_gif), the  *)
(* shared state (SharedState) and the temporary files (TempFile).          *)
(*                                                                         *)
(* Conventions.                                                            *)
(*  - A temporary file is identified by its path; a TempFile handle is the *)
(*    path it holds, so a clone of a handle is the same value.             *)
(*  - Sizes are whole KB. A file is written once by the program that       *)
(*    produces it, so the size measured right after it is written is kept  *)
(*    in the program variable that receives it (frames_size, size,         *)
(*    opt_size) and not in the file system.                                *)
(*  - The decoder and gifsicle are opaque and fallible: each call either   *)
(*    fails or produces a file of some size.                               *)
(*  - The input file is readable and the output path writable: fs::copy    *)
(*    and the metadata reads of those two paths succeed.                   *)
(*  - The process ends when optimize_gif returns (main returns right       *)
(*    after it), so worker threads take no step once cpc = "done".         *)
(***************************************************************************)
EXTENDS Integers, Sequences, FiniteSets, TLC

(* ------------------------------ bounds --------------------------------- *)

\* Largest file size (KB) a decoder or compressor call produces.
MaxSize == 4

\* target_size_kb, the size the run is asked to reach: three sizes lie above
\* it, so that a best size can be improved twice without reaching it.
TargetKb == MaxSize - 3

\* Frame counts get_frame_count returns: none, one that yields one strategy,
\* one that yields two.
FrameCounts == {0, 6, 7}

\* Number of thread slots of the model.
MaxWorkers == 3

\* Number of levels of lossy_levels a Worker of the model sweeps.
MaxLevels == 4

(* ----------------------------- constants ------------------------------- *)

\* f64::MAX, the size of a result that carries no file.
F64Max == 1000000

\* u16::MAX, the largest inter-frame delay.
U16Max == 65535

\* lossy_levels.chunks(chunk_size)
chunk_size == 2

lossy_levels == <<30, 60, 90, 120, 150, 180, 210, 240>>

\* The levels swept in the model.
SweptLevels == SubSeq(lossy_levels, 1, IF MaxLevels < 8 THEN MaxLevels ELSE 8)

\* --min-frames, default value.
DefaultMinFrames == 10

Sizes == 1..MaxSize
Workers == 1..MaxWorkers

Max(a, b) == IF a >= b THEN a ELSE b
Min(a, b) == IF a <= b THEN a ELSE b
CeilDiv(a, b) == (a + b - 1) \div b

RECURSIVE Pow2(_)
Pow2(n) == IF n = 0 THEN 1 ELSE 2 * Pow2(n - 1)

RECURSIVE Log2(_)
Log2(n) == IF n <= 1 THEN 0 ELSE 1 + Log2(n \div 2)

(* ------------------------- f64 <-> u64 bits ---------------------------- *)
(* f64::to_bits of a non-negative whole number: the 12 top bits (sign and  *)
(* biased exponent) and the mantissa field.  Only the MantissaTop leading  *)
(* bits of the mantissa are kept: the others are zero for every size below *)
(* 2^MantissaTop, so the pair, ordered lexicographically, is ordered as    *)
(* the u64 is.                                                             *)

MantissaTop == 8
ExponentBias == 1023

ToBits(size) ==
    IF size = 0 THEN <<0, 0>>
    ELSE LET e == Log2(size)
         IN  <<ExponentBias + e, (size - Pow2(e)) * Pow2(MantissaTop - e)>>

\* u64::MAX: every bit set.
U64Max == <<4095, Pow2(MantissaTop) - 1>>

\* The value of f64::from_bits that is not a number.
NaN == -1

FromBits(bits) ==
    IF bits = <<0, 0>> THEN 0
    ELSE IF bits[1] > 2046 THEN NaN
    ELSE LET e == bits[1] - ExponentBias
         IN  Pow2(e) + bits[2] \div Pow2(MantissaTop - e)

\* a < b on f64: false when either is not a number.
FloatLt(a, b) == a # NaN /\ b # NaN /\ a < b

\* a >= b on u64.
BitsGeq(a, b) == a[1] > b[1] \/ (a[1] = b[1] /\ a[2] >= b[2])

(* ------------------------------ files ---------------------------------- *)

NoFile == <<>>
InputFile == <<0, 0>>
\* temp_file_opt of optimize_gif
BaselineFile == <<0, 1>>
\* temp_frames, temp_frames_opt and the lossy trial files of process_strategy
FramesFile(w) == <<w, 1>>
OptFile(w) == <<w, 2>>
LossyFile(w, level) == <<w, level>>

RangeOf(s) == {s[i] : i \in 1..Len(s)}

TempFiles ==
    {BaselineFile}
        \cup {FramesFile(w) : w \in Workers}
        \cup {OptFile(w) : w \in Workers}
        \cup {LossyFile(w, l) : w \in Workers, l \in RangeOf(lossy_levels)}

(* ------------------------ strategy generation -------------------------- *)

\* extract_frames: for i in (0..total_frames).step_by(skip), the first frame
\* when that selects none.
SelectedFrames(total_frames, skip) ==
    LET stepped == {i \in 0..(total_frames - 1) : i % skip = 0}
    IN  IF stepped = {} /\ total_frames > 0 THEN {0} ELSE stepped

\* (original_frame_count as f64 * min_frame_percent as f64 / 100.0) as usize
min_frames(frame_count, percent) == Max(3, (frame_count * percent) \div 100)

\* A variant without the upper limit of 10.
max_skip_unlimited(frame_count, percent) ==
    Max(2, CeilDiv(frame_count, min_frames(frame_count, percent)))

\* max(2, min(10, ceil(frame_count / min_frames)))
max_skip(frame_count, percent) ==
    Max(2, Min(10, CeilDiv(frame_count, min_frames(frame_count, percent))))

\* ((100.0 * skip as f64) / original_frame_count as f64) as u16: the cast
\* saturates, and x / 0.0 is +infinity for x > 0.
DelayBase(skip, frame_count) ==
    IF frame_count = 0 THEN U16Max
    ELSE Min(U16Max, (100 * skip) \div frame_count)

\* "+ 10" on u16 overflows when the sum passes u16::MAX.
DelayOverflows(skip, frame_count) == DelayBase(skip, frame_count) + 10 > U16Max

\* The sum as a build without overflow checks computes it.
DelayWrapped(skip, frame_count) ==
    (DelayBase(skip, frame_count) + 10) % (U16Max + 1)

MakeStrategy(skip, frame_count) ==
    [skip |-> skip, delay |-> DelayWrapped(skip, frame_count)]

\* for skip in 2..=max_skip
RegularSkips(frame_count, percent) ==
    [i \in 1..(max_skip(frame_count, percent) - 1) |-> i + 1]

\* aggressive_skips, filtered by original_frame_count / skip >= min_frames
AggressiveSkips(frame_count, percent) ==
    IF frame_count > 30
    THEN SelectSeq(<<max_skip(frame_count, percent) + 5,
                     max_skip(frame_count, percent) + 10>>,
                   LAMBDA skip : frame_count \div skip
                                     >= min_frames(frame_count, percent))
    ELSE <<>>

StrategySkips(frame_count, percent) ==
    RegularSkips(frame_count, percent) \o AggressiveSkips(frame_count, percent)

GenerateStrategies(frame_count, percent) ==
    LET skips == StrategySkips(frame_count, percent)
    IN  [i \in 1..Len(skips) |-> MakeStrategy(skips[i], frame_count)]

\* Some delay of the list overflows u16.
GenerationOverflows(frame_count, percent) ==
    \E i \in 1..Len(StrategySkips(frame_count, percent)) :
        DelayOverflows(StrategySkips(frame_count, percent)[i], frame_count)

NoStrategy == [skip |-> 0, delay |-> 0]

(* --------------------------- StrategyResult ---------------------------- *)

\* A size not measured yet.
NoSize == 0 - 1

\* A count not taken yet.
NoCount == 0 - 1

NoResult == [size |-> NoSize, file |-> NoFile, success |-> FALSE]

\* StrategyResult { size: f64::MAX, file: None, success: false }
FailedResult == [size |-> F64Max, file |-> NoFile, success |-> FALSE]

SuccessResult(size, file) == [size |-> size, file |-> file, success |-> TRUE]

(* ------------------------------ state ---------------------------------- *)

VARIABLES
    \* environment
    gifsicle_present,    \* the gifsicle binary can be started
    min_frame_percent,   \* --min-frames
    threads,             \* --threads, or the number of CPUs when it is 0
    compressor_invoked,  \* Command::new("gifsicle") has been run at least once
    created,             \* temporary files ever created (NamedTempFile + keep)
    on_disk,             \* temporary files that exist now
    cleanup_calls,       \* per path, the number of TempFile::cleanup calls
    \* optimize_gif
    cpc,                 \* position of the Coordinator
    ret,                 \* what optimize_gif returned ("none" while running)
    original_size,
    original_frame_count,
    opt_size,
    thread_count,        \* min(threads, strategies.len())
    strategies,          \* strategies not yet moved into a thread
    spawned,             \* number of threads spawned (handles.len())
    chan,                \* the mpsc channel: results sent, not yet received
    best_size,           \* the Coordinator's running best
    best_file,
    found_solution,
    files_to_cleanup,
    output,              \* the file copied to output_path
    notice,              \* the "target not reached" notice was printed
    \* SharedState
    found_target,
    shared_best_size,    \* best_size: AtomicU64, as bits
    \* process_strategy and the thread closure, per thread
    wpc,
    strategy,
    w_best_size,
    w_best_file,
    chunk,               \* index of the chunk of lossy_levels being swept
    temp_files,          \* temp_files of the current chunk: <<level, file>>
    current_best_path,   \* the input of the trials of the current chunk
    trial,               \* index in temp_files of the next trial of the chunk
    results,             \* results of the current chunk: <<level, size>>
    result,              \* the StrategyResult process_strategy returned
    current,             \* update_best_size: the local `current`
    is_better

\* The inputs of the run.
inputVars == <<gifsicle_present, min_frame_percent, threads>>
envVars == <<inputVars, compressor_invoked, created, on_disk, cleanup_calls>>
coordVars == <<cpc, ret, original_size, original_frame_count, opt_size, thread_count, strategies,
               spawned, chan, best_size, best_file, found_solution,
               files_to_cleanup, output, notice>>
sharedVars == <<found_target, shared_best_size>>
\* The locals of the sweep of one chunk.
sweepVars == <<current_best_path, trial, results>>
workerVars == <<wpc, strategy, w_best_size, w_best_file, chunk, temp_files,
                sweepVars, result, current, is_better>>
vars == <<envVars, coordVars, sharedVars, workerVars>>

\* Everything of the Coordinator but its position and return value.
coordData == <<original_size, original_frame_count, opt_size, thread_count, strategies, spawned,
               chan, best_size, best_file, found_solution, files_to_cleanup,
               output, notice>>

\* optimize_gif is entered: nothing is read or written yet.
InitEntry ==
    /\ compressor_invoked = FALSE
    /\ created = {}
    /\ on_disk = {}
    /\ cpc = "start"
    /\ original_size = NoSize
    /\ original_frame_count = NoCount
    /\ opt_size = NoSize

\* What the search starts from: no strategy, no thread, a fresh SharedState.
InitSearch ==
    /\ cleanup_calls = [f \in TempFiles |-> 0]
    /\ ret = "none"
    /\ thread_count = NoCount
    /\ strategies = <<>>
    /\ spawned = 0
    /\ chan = <<>>
    /\ best_size = NoSize
    /\ best_file = NoFile
    /\ found_solution = FALSE
    /\ files_to_cleanup = <<>>
    /\ output = NoFile
    /\ notice = FALSE
    \* SharedState::new()
    /\ found_target = FALSE
    /\ shared_best_size = U64Max
    /\ strategy = [w \in Workers |-> NoStrategy]
    /\ w_best_size = [w \in Workers |-> NoSize]
    /\ w_best_file = [w \in Workers |-> NoFile]
    /\ chunk = [w \in Workers |-> 0]
    /\ temp_files = [w \in Workers |-> <<>>]
    /\ current_best_path = [w \in Workers |-> NoFile]
    /\ trial = [w \in Workers |-> 0]
    /\ results = [w \in Workers |-> <<>>]
    /\ current = [w \in Workers |-> U64Max]
    /\ is_better = [w \in Workers |-> FALSE]

InitCommon == InitEntry /\ InitSearch

\* The options of main when none is given on the command line; the machine
\* has as many CPUs as the model has thread slots.
DefaultOptions ==
    /\ min_frame_percent = DefaultMinFrames
    /\ threads = MaxWorkers

Init ==
    /\ InitCommon
    /\ DefaultOptions
    /\ gifsicle_present \in BOOLEAN
    /\ wpc = [w \in Workers |-> "idle"]
    /\ result = [w \in Workers |-> NoResult]

(* --------------------------- TempFile ---------------------------------- *)

\* cleanup_calls after TempFile::cleanup was called on each path of the
\* sequence.
RECURSIVE CountCleanups(_, _)
CountCleanups(calls, paths) ==
    IF paths = <<>> THEN calls
    ELSE CountCleanups([calls EXCEPT ![Head(paths)] = @ + 1], Tail(paths))

\* TempFile::cleanup on each path of the sequence, in order: the file is
\* removed if it exists.
CleanupAll(paths) ==
    /\ on_disk' = on_disk \ RangeOf(paths)
    /\ cleanup_calls' = CountCleanups(cleanup_calls, paths)

\* NamedTempFile::new() followed by TempFile::new (keep): the file exists
\* and nothing deletes it automatically.
CreateTemp(file) ==
    /\ created' = created \cup {file}
    /\ on_disk' = on_disk \cup {file}

(* --------------------------- optimize_gif ------------------------------ *)

\* Sizes of the input the model tries: below, at and above the target.
InputSizes == (TargetKb - 1)..(TargetKb + 1)

\* A variant with original_size < target_size_kb.
AlreadySmallStrict(size) == size < TargetKb

\* original_size <= target_size_kb
AlreadySmall(size) == size <= TargetKb

\* A variant with opt_size < target_size_kb.
BaselineReachesTargetStrict(size) == size < TargetKb

\* opt_size <= target_size_kb
BaselineReachesTarget(size) == size <= TargetKb

\* A variant with result.size < target_size_kb.
ReachesTargetStrict(size) == size < TargetKb

\* result.size <= target_size_kb
ReachesTarget(size) == size <= TargetKb

\* A variant with result.size <= best_size: a result as large as the best
\* one replaces it.
ImprovesBestOnTie(size, best) == size <= best

\* result.size < best_size
ImprovesBest(size, best) == size < best

\* !result.success
IsFailure(r) == ~r.success

Return(value) ==
    /\ ret' = value
    /\ cpc' = "done"

\* Lines 630-639: the size of the input; an input already small enough is
\* copied to the output.
CheckOriginalSize ==
    /\ cpc = "start"
    /\ \E size \in InputSizes :
        /\ original_size' = size
        /\ IF AlreadySmall(size)
           THEN /\ output' = InputFile
                /\ Return("Ok")
           ELSE /\ cpc' = "frame_count"
                /\ UNCHANGED <<ret, output>>
    /\ UNCHANGED <<envVars, sharedVars, workerVars, original_frame_count, opt_size, thread_count,
                   strategies, spawned, chan, best_size, best_file, found_solution,
                   files_to_cleanup, notice>>

\* Lines 641-643: get_frame_count(&input_path)?
GetFrameCount ==
    /\ cpc = "frame_count"
    /\ \/ /\ Return("Image")
          /\ UNCHANGED original_frame_count
       \/ /\ \E count \in FrameCounts : original_frame_count' = count
          /\ cpc' = "probe"
          /\ UNCHANGED ret
    /\ UNCHANGED <<envVars, sharedVars, workerVars, original_size, opt_size, thread_count,
                   strategies, spawned, chan, best_size, best_file, found_solution,
                   files_to_cleanup, output, notice>>

\* A variant that takes the answer of the probe for Ok whatever it is.
ProbeOkAlways(present) == TRUE

\* Command::new("gifsicle").arg("--version").output() is Ok
ProbeOk(present) == present

\* Lines 645-649: gifsicle --version
ProbeGifsicle ==
    /\ cpc = "probe"
    /\ compressor_invoked' = TRUE
    /\ IF ProbeOk(gifsicle_present)
       THEN /\ cpc' = "baseline"
            /\ UNCHANGED ret
       ELSE Return("GifsicleNotFound")
    /\ UNCHANGED <<inputVars, created, on_disk, cleanup_calls, coordData,
                   sharedVars, workerVars>>

\* Lines 651-691: the baseline pass.  Every early return leaves temp_file_opt
\* on disk: TempFile has no Drop.
BaselinePass ==
    /\ cpc = "baseline"
    /\ \/ \* NamedTempFile::new()? or TempFile::new(temp_file)? fails
          /\ Return("Io")
          /\ UNCHANGED <<created, on_disk, opt_size, output>>
       \/ \* gifsicle cannot be run, exits non-zero, or the size cannot be read
          /\ CreateTemp(BaselineFile)
          /\ \E e \in {"Io", "GifsicleExecFailed"} : Return(e)
          /\ UNCHANGED <<opt_size, output>>
       \/ /\ CreateTemp(BaselineFile)
          /\ \E size \in Sizes :
               /\ opt_size' = size
               /\ IF BaselineReachesTarget(size)
                  THEN /\ output' = BaselineFile
                       /\ Return("Ok")
                  ELSE /\ cpc' = "generate"
                       /\ UNCHANGED <<ret, output>>
    /\ UNCHANGED <<inputVars, compressor_invoked, cleanup_calls, sharedVars,
                   workerVars, original_size, original_frame_count, thread_count, strategies,
                   spawned, chan, best_size, best_file, found_solution,
                   files_to_cleanup, notice>>

\* A variant without the update_best_size(opt_size) of line 738: the shared
\* best size stays at u64::MAX.
SeedBestSizeSkipped(size) == shared_best_size

\* update_best_size when no other thread runs: one pass of its loop.
SeedBestSize(size) ==
    IF BitsGeq(ToBits(size), shared_best_size) THEN shared_best_size ELSE ToBits(size)

\* Lines 693-738 and 775-779: the strategies, the shared state seeded with
\* the baseline size, and the Coordinator's running best.  A delay that
\* overflows u16 panics in a build with overflow checks and wraps in one
\* without.
GenerateAndSeed ==
    /\ cpc = "generate"
    /\ \/ /\ GenerationOverflows(original_frame_count, min_frame_percent)
          /\ Return("panic")
          /\ UNCHANGED <<strategies, thread_count, shared_best_size, best_size,
                         best_file>>
       \/ /\ strategies' = GenerateStrategies(original_frame_count, min_frame_percent)
          /\ thread_count' = Min(threads, Len(strategies'))
          /\ shared_best_size' = SeedBestSize(opt_size)
          /\ best_size' = opt_size
          /\ best_file' = BaselineFile
          /\ cpc' = "spawn"
          /\ UNCHANGED ret
    /\ UNCHANGED <<envVars, found_target, workerVars, original_size,
                   original_frame_count, opt_size, spawned, chan, found_solution,
                   files_to_cleanup, output, notice>>

\* Lines 740-773: one iteration of the loop that spawns a thread per
\* strategy; after the last one, drop(tx).
SpawnWorker ==
    /\ cpc = "spawn"
    /\ IF strategies # <<>>
       THEN /\ spawned' = spawned + 1
            /\ strategy' = [strategy EXCEPT ![spawned + 1] = Head(strategies)]
            /\ strategies' = Tail(strategies)
            /\ wpc' = [wpc EXCEPT ![spawned + 1] = "start"]
            /\ cpc' = IF Tail(strategies) = <<>> THEN "recv" ELSE "spawn"
       ELSE /\ cpc' = "recv"
            /\ UNCHANGED <<spawned, strategy, strategies, wpc>>
    /\ UNCHANGED <<envVars, sharedVars, ret, original_size, original_frame_count,
                   opt_size, thread_count, chan, best_size, best_file, found_solution,
                   files_to_cleanup, output, notice, w_best_size, w_best_file,
                   chunk, temp_files, sweepVars, result, current, is_better>>

\* A variant without the drop(tx) of line 773: the Coordinator keeps a sender
\* of its own and the channel never closes.
TxKept == FALSE

\* A variant in which the channel closes as soon as one sender is dropped.
OneSenderDropped == \E w \in 1..spawned : wpc[w] = "finished"

\* Every sender of the channel is dropped: tx by drop(tx), each tx_clone at
\* the end of its thread's closure.
AllSendersDropped == \A w \in 1..spawned : wpc[w] = "finished"

\* if let Some(old_file) = best_file.take() { files_to_cleanup.push(old_file) }
PushOldBest == IF best_file # NoFile THEN Append(files_to_cleanup, best_file)
               ELSE files_to_cleanup

\* A variant that ends the run with an error on a result that is not a
\* success.
SkipFailureAbort(r) ==
    /\ Return("Other")
    /\ UNCHANGED <<files_to_cleanup, best_size, best_file, found_solution,
                   found_target>>

\* Lines 783-789: a result that is not a success; its file, if any, goes to
\* the cleanup list and the loop continues.
SkipFailure(r) ==
    /\ files_to_cleanup' = IF r.file # NoFile
                            THEN Append(files_to_cleanup, r.file)
                            ELSE files_to_cleanup
    /\ UNCHANGED <<cpc, ret, best_size, best_file, found_solution, found_target>>

\* Lines 781-827: one iteration of `for result in rx.iter()`.
ReceiveResult ==
    /\ cpc = "recv"
    /\ chan # <<>>
    /\ chan' = Tail(chan)
    /\ LET r == Head(chan) IN
       IF IsFailure(r)
       THEN SkipFailure(r)
       ELSE IF r.file = NoFile
       THEN UNCHANGED <<cpc, ret, best_size, best_file, found_solution, found_target,
                        files_to_cleanup>>
       ELSE IF ReachesTarget(r.size)
       THEN /\ files_to_cleanup' = PushOldBest
            /\ best_size' = r.size
            /\ best_file' = r.file
            /\ found_solution' = TRUE
            /\ found_target' = TRUE
            /\ cpc' = "copy"
            /\ UNCHANGED ret
       ELSE IF ImprovesBest(r.size, best_size)
       THEN /\ files_to_cleanup' = PushOldBest
            /\ best_size' = r.size
            /\ best_file' = r.file
            /\ UNCHANGED <<cpc, ret, found_solution, found_target>>
       ELSE /\ files_to_cleanup' = Append(files_to_cleanup, r.file)
            /\ UNCHANGED <<cpc, ret, best_size, best_file, found_solution, found_target>>
    /\ UNCHANGED <<envVars, shared_best_size, workerVars, original_size,
                   original_frame_count, opt_size, thread_count, strategies, spawned, output, notice>>

\* rx.iter() ends: the channel is empty and every sender is dropped.
ChannelClosed ==
    /\ cpc = "recv"
    /\ chan = <<>>
    /\ AllSendersDropped
    /\ cpc' = "join"
    /\ UNCHANGED <<envVars, sharedVars, workerVars, ret, coordData>>

\* Lines 832-840: without a solution, handle.join() of every thread.
JoinWorkers ==
    /\ cpc = "join"
    /\ \A w \in 1..spawned : wpc[w] = "finished"
    /\ cpc' = "copy"
    /\ UNCHANGED <<envVars, sharedVars, workerVars, ret, coordData>>

\* A variant without the fallback to the baseline file.
CopySourceNoFallback(best, disk) == IF best \in disk THEN best ELSE NoFile

\* The file lines 848-862 copy to the output: the best file, the baseline
\* file when the best file is gone, none when both are gone.
CopySource(best, disk) ==
    IF best \in disk THEN best
    ELSE IF BaselineFile \in disk THEN BaselineFile
    ELSE NoFile

\* The error of line 857.
CopyError == "Other"

\* Lines 842-865 and 874-882: the copy to output_path.
CopyBest ==
    /\ cpc = "copy"
    /\ IF best_file = NoFile
       THEN /\ CleanupAll(files_to_cleanup)
            /\ Return("NoValidResults")
            /\ UNCHANGED output
       ELSE IF CopySource(best_file, on_disk) = NoFile
       THEN /\ Return(CopyError)
            /\ UNCHANGED <<output, on_disk, cleanup_calls>>
       ELSE /\ output' = CopySource(best_file, on_disk)
            /\ cpc' = "cleanup"
            /\ UNCHANGED <<ret, on_disk, cleanup_calls>>
    /\ UNCHANGED <<inputVars, compressor_invoked, created, sharedVars,
                   workerVars, original_size, original_frame_count, opt_size, thread_count,
                   strategies, spawned, chan, best_size, best_file, found_solution,
                   files_to_cleanup, notice>>

\* Lines 867-891: cleanup of the best file and of files_to_cleanup, the
\* notice, Ok(()).
FinalCleanup ==
    /\ cpc = "cleanup"
    /\ CleanupAll(<<best_file>> \o files_to_cleanup)
    /\ notice' = (best_size > TargetKb)
    /\ Return("Ok")
    /\ UNCHANGED <<inputVars, compressor_invoked, created, sharedVars,
                   workerVars, original_size, original_frame_count, opt_size, thread_count,
                   strategies, spawned, chan, best_size, best_file, found_solution,
                   files_to_cleanup, output>>

Coordinator ==
    \/ CheckOriginalSize
    \/ GetFrameCount
    \/ ProbeGifsicle
    \/ BaselinePass
    \/ GenerateAndSeed
    \/ SpawnWorker
    \/ ReceiveResult
    \/ ChannelClosed
    \/ JoinWorkers
    \/ CopyBest
    \/ FinalCleanup

(* -------------------------- process_strategy --------------------------- *)

coordNoChan == <<cpc, ret, original_size, original_frame_count, opt_size, thread_count, strategies,
                 spawned, best_size, best_file, found_solution, files_to_cleanup,
                 output, notice>>

\* The process is alive: optimize_gif has not returned.
ProcessAlive == cpc # "done"

\* size < 1.0
TooSmall(size) == size < 1

\* frames_size <= target_size_kb
FramesReachTarget(size) == size <= TargetKb

\* *size <= target_size_kb
TrialReachesTarget(size) == size <= TargetKb

\* *size < best_size
TrialImproves(size, best) == size < best

NumChunks == CeilDiv(Len(SweptLevels), chunk_size)

\* The c-th chunk of lossy_levels.chunks(chunk_size), c = 1..NumChunks.
ChunkLevels(c) ==
    SubSeq(SweptLevels, (c - 1) * chunk_size + 1,
           Min(c * chunk_size, Len(SweptLevels)))

\* What happens to one level of a chunk: the trial failed (gifsicle or the
\* size read), or it produced a file of some size.  The temporary file of a
\* trial is taken to be created: a failure of lines 496-507 skips the level.
TrialOutcomes == {<<"failed", 0>>} \cup {<<"ok", s>> : s \in Sizes}

\* Lines 494-508: temp_files, <<level, file>> for each level of the chunk.
TempFilesOf(w, levels) ==
    [k \in 1..Len(levels) |-> <<levels[k], LossyFile(w, levels[k])>>]

\* temp_files.iter().find(|(l, _)| *l == *level)
FindTemp(tfs, level) ==
    LET m == SelectSeq(tfs, LAMBDA t : t[1] = level)
    IN  IF m = <<>> THEN NoFile ELSE m[1][2]

\* best_file.take() + old_file.cleanup(), then best = temp_file.clone()
Adopt(acc, size, file) ==
    [acc EXCEPT !.best_size = size,
                !.best_file = file,
                !.cleaned = IF acc.best_file # NoFile
                            THEN Append(acc.cleaned, acc.best_file)
                            ELSE acc.cleaned]

\* Lines 555-586, up to the set_found_target of line 573: the loop over
\* results.  acc.cleaned lists the paths cleanup was called on, acc.hit says
\* the loop ended at a result that reaches the target.
RECURSIVE ProcessResults(_, _, _, _)
ProcessResults(rs, tfs, acc, i) ==
    IF i > Len(rs) THEN acc
    ELSE LET level == rs[i][1]
             size == rs[i][2]
             file == FindTemp(tfs, level)
         IN  IF TrialReachesTarget(size)
             THEN [(IF file # NoFile /\ acc.best_size > size
                    THEN Adopt(acc, size, file) ELSE acc) EXCEPT !.hit = TRUE]
             ELSE IF TrialImproves(size, acc.best_size)
             THEN ProcessResults(rs, tfs,
                                 IF file # NoFile THEN Adopt(acc, size, file) ELSE acc,
                                 i + 1)
             ELSE ProcessResults(rs, tfs, acc, i + 1)

\* A variant of the cleanup after a chunk without the comparison with the
\* path of the best file.
UnselectedAll(tfs, best) == [k \in 1..Len(tfs) |-> tfs[k][2]]

\* Lines 593-602: the temporary files of the chunk that are not the best.
Unselected(tfs, best) ==
    LET others == SelectSeq(tfs, LAMBDA t : best = NoFile \/ best # t[2])
    IN  [k \in 1..Len(others) |-> others[k][2]]

\* process_strategy returns: its locals are gone.
WorkerReturn(w, res) ==
    /\ result' = [result EXCEPT ![w] = res]
    /\ wpc' = [wpc EXCEPT ![w] = "returned"]
    /\ w_best_size' = [w_best_size EXCEPT ![w] = NoSize]
    /\ w_best_file' = [w_best_file EXCEPT ![w] = NoFile]
    /\ chunk' = [chunk EXCEPT ![w] = 0]
    /\ temp_files' = [temp_files EXCEPT ![w] = <<>>]
    /\ current_best_path' = [current_best_path EXCEPT ![w] = NoFile]
    /\ trial' = [trial EXCEPT ![w] = 0]
    /\ results' = [results EXCEPT ![w] = <<>>]

Goto(w, pc) == wpc' = [wpc EXCEPT ![w] = pc]

\* Lines 284-327: the first poll, then temp_frames.
CreateFramesFile(w) ==
    /\ ProcessAlive
    /\ wpc[w] = "start"
    /\ IF found_target
       THEN /\ WorkerReturn(w, FailedResult)
            /\ UNCHANGED <<created, on_disk>>
       ELSE \/ /\ WorkerReturn(w, FailedResult)
               /\ UNCHANGED <<created, on_disk>>
            \/ /\ CreateTemp(FramesFile(w))
               /\ Goto(w, "extract")
               /\ UNCHANGED <<result, w_best_size, w_best_file, chunk, temp_files, sweepVars>>
    /\ UNCHANGED <<inputVars, compressor_invoked, cleanup_calls, coordNoChan,
                   chan, sharedVars, strategy, current, is_better>>

\* Lines 329-348: the second poll, then extract_frames.
ExtractFrames(w) ==
    /\ ProcessAlive
    /\ wpc[w] = "extract"
    /\ IF found_target
       THEN WorkerReturn(w, FailedResult)
       ELSE \/ WorkerReturn(w, FailedResult)
            \/ /\ Goto(w, "validate")
               /\ UNCHANGED <<result, w_best_size, w_best_file, chunk, temp_files, sweepVars>>
    /\ UNCHANGED <<envVars, coordNoChan, chan, sharedVars, strategy, current, is_better>>

\* Lines 350-402: the third poll, the size of the extracted file, then
\* temp_frames_opt.
ValidateFrames(w) ==
    /\ ProcessAlive
    /\ wpc[w] = "validate"
    /\ IF found_target
       THEN /\ WorkerReturn(w, FailedResult)
            /\ UNCHANGED <<created, on_disk>>
       ELSE \/ \* get_file_size_kb fails
               /\ WorkerReturn(w, FailedResult)
               /\ UNCHANGED <<created, on_disk>>
            \/ \E size \in 0..MaxSize :
                 IF TooSmall(size)
                 THEN /\ WorkerReturn(w, FailedResult)
                      /\ UNCHANGED <<created, on_disk>>
                 ELSE \/ /\ WorkerReturn(w, FailedResult)
                         /\ UNCHANGED <<created, on_disk>>
                      \/ /\ CreateTemp(OptFile(w))
                         /\ Goto(w, "base_opt")
                         /\ UNCHANGED <<result, w_best_size, w_best_file, chunk,
                                        temp_files, sweepVars>>
    /\ UNCHANGED <<inputVars, compressor_invoked, cleanup_calls, coordNoChan,
                   chan, sharedVars, strategy, current, is_better>>

\* Lines 404-457 and 469-471: the fourth poll, gifsicle -O3, cleanup of
\* temp_frames, the size of the result.  w_best_size and w_best_file hold
\* frames_size and temp_frames_opt from here on.
BaseOptimize(w) ==
    /\ ProcessAlive
    /\ wpc[w] = "base_opt"
    /\ IF found_target
       THEN /\ WorkerReturn(w, FailedResult)
            /\ UNCHANGED <<on_disk, cleanup_calls>>
       ELSE \/ \* gifsicle cannot be run or exits non-zero
               /\ WorkerReturn(w, FailedResult)
               /\ UNCHANGED <<on_disk, cleanup_calls>>
            \/ \* the size of the optimized file cannot be read
               /\ CleanupAll(<<FramesFile(w)>>)
               /\ WorkerReturn(w, FailedResult)
            \/ /\ CleanupAll(<<FramesFile(w)>>)
               /\ \E size \in Sizes :
                    /\ w_best_size' = [w_best_size EXCEPT ![w] = size]
                    /\ w_best_file' = [w_best_file EXCEPT ![w] = OptFile(w)]
                    /\ IF FramesReachTarget(size)
                       THEN /\ Goto(w, "found_base")
                            /\ UNCHANGED chunk
                       ELSE /\ Goto(w, "chunk_poll")
                            /\ chunk' = [chunk EXCEPT ![w] = 1]
               /\ UNCHANGED <<result, temp_files, sweepVars>>
    /\ UNCHANGED <<inputVars, compressor_invoked, created, coordNoChan, chan,
                   sharedVars, strategy, current, is_better>>

\* Lines 458-467: the base optimization reached the target.
SetFoundBase(w) ==
    /\ ProcessAlive
    /\ wpc[w] = "found_base"
    /\ found_target' = TRUE
    /\ WorkerReturn(w, SuccessResult(w_best_size[w], w_best_file[w]))
    /\ UNCHANGED <<envVars, coordNoChan, chan, shared_best_size, strategy, current,
                   is_better>>

\* Lines 480-489: the poll at the head of a chunk.
ChunkPoll(w) ==
    /\ ProcessAlive
    /\ wpc[w] = "chunk_poll"
    /\ IF found_target
       THEN WorkerReturn(w, SuccessResult(w_best_size[w], w_best_file[w]))
       ELSE /\ Goto(w, "chunk_run")
            /\ UNCHANGED <<result, w_best_size, w_best_file, chunk, temp_files, sweepVars>>
    /\ UNCHANGED <<envVars, coordNoChan, chan, sharedVars, strategy, current, is_better>>

\* A variant that feeds the trials with the extracted, un-optimized file.
TrialInputExtraction(w) == FramesFile(w)

\* Lines 510-513: current_best_path, the path of best_file.
TrialInput(w) == w_best_file[w]

\* Lines 491-514: the temporary files of the chunk and current_best_path,
\* the best file at the head of the chunk.
ChunkRun(w) ==
    /\ ProcessAlive
    /\ wpc[w] = "chunk_run"
    /\ LET tfs == TempFilesOf(w, ChunkLevels(chunk[w]))
           new == {tfs[k][2] : k \in 1..Len(tfs)}
       IN  /\ temp_files' = [temp_files EXCEPT ![w] = tfs]
           /\ created' = created \cup new
           /\ on_disk' = on_disk \cup new
    /\ current_best_path' = [current_best_path EXCEPT ![w] = TrialInput(w)]
    /\ trial' = [trial EXCEPT ![w] = 1]
    /\ results' = [results EXCEPT ![w] = <<>>]
    /\ Goto(w, "trial")
    /\ UNCHANGED <<inputVars, compressor_invoked, cleanup_calls, coordNoChan, chan,
                   sharedVars, strategy, w_best_size, w_best_file, chunk, result,
                   current, is_better>>

\* results.push((*level, size)) when the trial gave a file whose size can be
\* read.
PushResult(rs, level, oc) ==
    IF oc[1] = "ok" THEN Append(rs, <<level, oc[2]>>) ELSE rs

\* Lines 555-571 and 575-586: the loop over the results rs of the chunk, up
\* to set_found_target.  Nothing reads results or the loop index after it.
ChunkResults(w, rs) ==
    LET acc == ProcessResults(rs, temp_files[w],
                              [best_size |-> w_best_size[w],
                               best_file |-> w_best_file[w],
                               cleaned |-> <<>>, hit |-> FALSE], 1)
    IN  /\ CleanupAll(acc.cleaned)
        /\ w_best_size' = [w_best_size EXCEPT ![w] = acc.best_size]
        /\ w_best_file' = [w_best_file EXCEPT ![w] = acc.best_file]
        /\ trial' = [trial EXCEPT ![w] = 0]
        /\ results' = [results EXCEPT ![w] = <<>>]
        /\ Goto(w, IF acc.hit THEN "found_sweep" ELSE "chunk_end")

\* Lines 516-553: one pass of the loop over temp_files: gifsicle --lossy on
\* current_best_path, then the size of its output; after the last pass, the
\* loop over the results.
Trial(w) ==
    /\ ProcessAlive
    /\ wpc[w] = "trial"
    /\ \E oc \in TrialOutcomes :
         LET rs == PushResult(results[w], temp_files[w][trial[w]][1], oc)
         IN  IF trial[w] < Len(temp_files[w])
             THEN /\ results' = [results EXCEPT ![w] = rs]
                  /\ trial' = [trial EXCEPT ![w] = @ + 1]
                  /\ UNCHANGED <<wpc, on_disk, cleanup_calls, w_best_size,
                                 w_best_file>>
             ELSE ChunkResults(w, rs)
    /\ UNCHANGED <<inputVars, compressor_invoked, created, coordNoChan, chan,
                   sharedVars, strategy, chunk, temp_files, current_best_path,
                   result, current, is_better>>

\* Lines 572-574: set_found_target, break.
SetFoundSweep(w) ==
    /\ ProcessAlive
    /\ wpc[w] = "found_sweep"
    /\ found_target' = TRUE
    /\ Goto(w, "chunk_end")
    /\ UNCHANGED <<envVars, coordNoChan, chan, shared_best_size, strategy, w_best_size,
                   w_best_file, chunk, temp_files, sweepVars, result, current, is_better>>

\* Lines 588-620: the poll at the end of a chunk; break, or the cleanup of
\* the files that are not the best and the next chunk; after the last chunk
\* the best is returned.
ChunkEnd(w) ==
    /\ ProcessAlive
    /\ wpc[w] = "chunk_end"
    /\ IF found_target
       THEN /\ WorkerReturn(w, SuccessResult(w_best_size[w], w_best_file[w]))
            /\ UNCHANGED <<on_disk, cleanup_calls>>
       ELSE /\ CleanupAll(Unselected(temp_files[w], w_best_file[w]))
            /\ IF chunk[w] = NumChunks
               THEN WorkerReturn(w, SuccessResult(w_best_size[w], w_best_file[w]))
               ELSE /\ chunk' = [chunk EXCEPT ![w] = chunk[w] + 1]
                    /\ temp_files' = [temp_files EXCEPT ![w] = <<>>]
                    /\ current_best_path' = [current_best_path EXCEPT ![w] = NoFile]
                    /\ trial' = [trial EXCEPT ![w] = 0]
                    /\ results' = [results EXCEPT ![w] = <<>>]
                    /\ Goto(w, "chunk_poll")
                    /\ UNCHANGED <<result, w_best_size, w_best_file>>
    /\ UNCHANGED <<inputVars, compressor_invoked, created, coordNoChan, chan,
                   sharedVars, strategy, current, is_better>>

(* ------------------ the thread closure and SharedState ----------------- *)

\* A variant in which the closure sets found_target for every result that
\* update_best_size accepted.
ThreadReachesTargetAlways(size) == size <= MaxSize

\* result.size <= target_size_kb, line 760
ThreadReachesTarget(size) == size <= TargetKb

\* size_bits >= current: the candidate is not better.
\* A variant with size_bits > current: a size equal to the stored one is
\* stored again and reported as an improvement.
NotBetterStrict(size_bits, cur) == size_bits # cur /\ BitsGeq(size_bits, cur)

NotBetter(size_bits, cur) == BitsGeq(size_bits, cur)

\* Line 756: result.success && result.size < get_best_size()
CheckBetter(w) ==
    /\ ProcessAlive
    /\ wpc[w] = "returned"
    /\ Goto(w, IF result[w].success
                  /\ FloatLt(result[w].size, FromBits(shared_best_size))
               THEN "ubs_load" ELSE "send")
    /\ UNCHANGED <<envVars, coordNoChan, chan, sharedVars, strategy, w_best_size,
                   w_best_file, chunk, temp_files, sweepVars, result, current, is_better>>

\* update_best_size, lines 229-230: current = best_size.load()
UbsLoad(w) ==
    /\ ProcessAlive
    /\ wpc[w] = "ubs_load"
    /\ current' = [current EXCEPT ![w] = shared_best_size]
    /\ Goto(w, "ubs_cas")
    /\ UNCHANGED <<envVars, coordNoChan, chan, sharedVars, strategy, w_best_size,
                   w_best_file, chunk, temp_files, sweepVars, result, is_better>>

\* update_best_size, lines 232-248: one pass of the loop.
UbsCas(w) ==
    /\ ProcessAlive
    /\ wpc[w] = "ubs_cas"
    /\ IF NotBetter(ToBits(result[w].size), current[w])
       THEN /\ is_better' = [is_better EXCEPT ![w] = FALSE]
            /\ Goto(w, "send")
            /\ UNCHANGED <<shared_best_size, current>>
       ELSE IF shared_best_size = current[w]
       THEN /\ shared_best_size' = ToBits(result[w].size)
            /\ is_better' = [is_better EXCEPT ![w] = TRUE]
            /\ Goto(w, "better")
            /\ UNCHANGED current
       ELSE /\ current' = [current EXCEPT ![w] = shared_best_size]
            /\ UNCHANGED <<shared_best_size, is_better, wpc>>
    /\ UNCHANGED <<envVars, coordNoChan, chan, found_target, strategy, w_best_size,
                   w_best_file, chunk, temp_files, sweepVars, result>>

\* Lines 759-763: is_better && result.size <= target_size_kb
SetFoundBetter(w) ==
    /\ ProcessAlive
    /\ wpc[w] = "better"
    /\ found_target' = (found_target \/ ThreadReachesTarget(result[w].size))
    /\ Goto(w, "send")
    /\ UNCHANGED <<envVars, coordNoChan, chan, shared_best_size, strategy, w_best_size,
                   w_best_file, chunk, temp_files, sweepVars, result, current, is_better>>

\* Lines 765-767: tx_clone.send(result); the closure ends and drops tx_clone.
SendResult(w) ==
    /\ ProcessAlive
    /\ wpc[w] = "send"
    /\ chan' = Append(chan, result[w])
    /\ Goto(w, "finished")
    /\ current' = [current EXCEPT ![w] = U64Max]
    /\ is_better' = [is_better EXCEPT ![w] = FALSE]
    /\ UNCHANGED <<envVars, coordNoChan, sharedVars, strategy, w_best_size,
                   w_best_file, chunk, temp_files, sweepVars, result>>

Worker(w) ==
    \/ CreateFramesFile(w)
    \/ ExtractFrames(w)
    \/ ValidateFrames(w)
    \/ BaseOptimize(w)
    \/ SetFoundBase(w)
    \/ ChunkPoll(w)
    \/ ChunkRun(w)
    \/ Trial(w)
    \/ SetFoundSweep(w)
    \/ ChunkEnd(w)
    \/ CheckBetter(w)
    \/ UbsLoad(w)
    \/ UbsCas(w)
    \/ SetFoundBetter(w)
    \/ SendResult(w)

Next == Coordinator \/ \E w \in Workers : Worker(w)

Spec == Init /\ [][Next]_vars

\* The operating system schedules every thread that can take a step: the
\* main thread in optimize_gif and each spawned thread, whose calls of the
\* decoder and of gifsicle return.
Fairness == WF_vars(Coordinator) /\ \A w \in Workers : WF_vars(Worker(w))

SpecFair == Spec /\ Fairness

(* ------------------- update_best_size on its own ----------------------- *)
(* Every thread calls update_best_size once, with a size of its own, on a  *)
(* fresh SharedState.                                                      *)

InitUbs ==
    /\ InitCommon
    /\ DefaultOptions
    /\ gifsicle_present = TRUE
    /\ wpc = [w \in Workers |-> "ubs_load"]
    /\ result \in [Workers -> {SuccessResult(size, NoFile) : size \in 0..MaxSize}]

NextUbs == \E w \in Workers : UbsLoad(w) \/ UbsCas(w)

SpecUbs == InitUbs /\ [][NextUbs]_vars

(* ------------------- strategy generation on its own -------------------- *)
(* optimize_gif at the strategy generation, after a baseline pass that did *)
(* not reach the target, for every frame count and every --min-frames up   *)
(* to a bound.                                                             *)

\* Largest frame count get_frame_count returns here.
MaxFrameCount == 100

\* Largest --min-frames given here.
MaxPercent == 120

InitGen ==
    /\ InitSearch
    /\ gifsicle_present = TRUE
    /\ threads = MaxWorkers
    /\ min_frame_percent \in 0..MaxPercent
    /\ compressor_invoked = TRUE
    /\ created = {BaselineFile}
    /\ on_disk = {BaselineFile}
    /\ cpc = "generate"
    /\ original_size = MaxSize
    /\ original_frame_count \in 0..MaxFrameCount
    /\ opt_size = MaxSize
    /\ wpc = [w \in Workers |-> "idle"]
    /\ result = [w \in Workers |-> NoResult]

NextGen == GenerateAndSeed

SpecGen == InitGen /\ [][NextGen]_vars

(* ----------------------- a run with --threads -------------------------- *)
(* The run of Spec with gifsicle present and every --threads up to the     *)
(* number of thread slots.                                                 *)

InitThreads ==
    /\ InitCommon
    /\ gifsicle_present = TRUE
    /\ min_frame_percent = DefaultMinFrames
    /\ threads \in 1..MaxWorkers
    /\ wpc = [w \in Workers |-> "idle"]
    /\ result = [w \in Workers |-> NoResult]

SpecThreads == InitThreads /\ [][Next]_vars

(* ---------------------- a file removed from outside -------------------- *)
(* Something outside the program removes the Coordinator's best file or    *)
(* the baseline file after the results are in and before the copy: the     *)
(* case lines 848-858 provide for.                                         *)

ExternalRemove ==
    /\ cpc = "copy"
    /\ \E f \in {best_file, BaselineFile} \cap on_disk : on_disk' = on_disk \ {f}
    /\ UNCHANGED <<inputVars, compressor_invoked, created, cleanup_calls,
                   coordVars, sharedVars, workerVars>>

NextEnv == Next \/ ExternalRemove

SpecEnv == Init /\ [][NextEnv]_vars

(* =============================== claims ================================ *)

Spawned == 1..spawned

AllIdle == \A w \in Workers : wpc[w] = "idle"

(* ------------------------------- C1 ------------------------------------ *)

\* C1: when a run has ended, whether with a result or with an error, every
\* temporary file the run created has been deleted: none is left on disk.
C1_NoTempFileLeft == cpc = "done" => on_disk = {}

\* C1: a run that has ended with Ok through the baseline fast path and has
\* left its baseline file on disk.
C1_BaselineLeft ==
    /\ cpc = "done"
    /\ ret = "Ok"
    /\ output = BaselineFile
    /\ BaselineFile \in on_disk

(* ------------------------------- C2 ------------------------------------ *)

\* C2: cleanup is invoked at most once on any temporary file.
C2_CleanupAtMostOnce == \A f \in TempFiles : cleanup_calls[f] <= 1

\* C2: a Worker has ended a chunk in which its best file was replaced, and
\* cleanup has been invoked twice on a file of that chunk.
C2_CleanedTwice ==
    \E w \in Workers : \E i \in 1..Len(SweptLevels) :
        /\ cleanup_calls[LossyFile(w, SweptLevels[i])] = 2
        /\ LossyFile(w, SweptLevels[i]) \notin on_disk

(* ------------------------------- C3 ------------------------------------ *)

\* The sizes of the calls of update_best_size that have returned.
ReturnedSizes == {result[w].size : w \in {v \in Workers : wpc[v] \in {"better", "send"}}}

RECURSIVE MinOf(_)
MinOf(set) ==
    LET x == CHOOSE y \in set : TRUE
    IN  IF set = {x} THEN x ELSE Min(x, MinOf(set \ {x}))

\* Under concurrent calls the stored value never increases.
UbsMonotone == BitsGeq(shared_best_size, shared_best_size')

\* A call returns true exactly when it replaced the stored value with its
\* own, strictly smaller, size.
UbsReturn(w) ==
    (wpc[w] = "ubs_cas" /\ wpc'[w] # "ubs_cas")
        => ((wpc'[w] = "better")
               <=> /\ shared_best_size' = ToBits(result[w].size)
                   /\ shared_best_size' # shared_best_size
                   /\ BitsGeq(shared_best_size, shared_best_size'))

\* Once every call has returned the stored value is the initial value when
\* no call was made with a smaller one, else the least size passed.
UbsFinal ==
    (\A w \in Workers : wpc[w] \in {"better", "send"})
        => shared_best_size = ToBits(MinOf(ReturnedSizes))

\* C3: update_best_size, called concurrently by any number of threads, never
\* increases the stored best size, returns true exactly when it replaced the
\* stored value with a strictly smaller one, and leaves the minimum of the
\* initial value and all the sizes passed once every call has returned.
C3_UpdateBestSize ==
    /\ [][UbsMonotone /\ \A w \in Workers : UbsReturn(w)]_vars
    /\ [](UbsFinal)

\* C3: all calls have returned; two of them replaced the stored value, one
\* after the other, and one was rejected.
C3_TwoUpdatesOneRejected ==
    \E w1, w2, w3 \in Workers :
        /\ wpc[w1] = "better" /\ wpc[w2] = "better" /\ wpc[w3] = "send"
        /\ result[w1].size > result[w2].size
        /\ result[w3].size >= result[w2].size
        /\ shared_best_size = ToBits(result[w2].size)

(* ------------------------------- C4 ------------------------------------ *)

\* C4: once the size of an input that is at most the target has been read,
\* the run is over: it returned Ok, the output is a copy of the input, the
\* compressor was never invoked, no temporary file was created and no worker
\* thread was spawned.
C4_SmallInputCopied ==
    (cpc # "start" /\ original_size <= TargetKb)
        => /\ cpc = "done"
           /\ ret = "Ok"
           /\ output = InputFile
           /\ ~compressor_invoked
           /\ created = {}
           /\ spawned = 0
           /\ AllIdle

\* C4: a run on an input exactly as large as the target has ended.
C4_InputAtTarget ==
    /\ cpc = "done"
    /\ original_size = TargetKb
    /\ output = InputFile

(* ------------------------------- C5 ------------------------------------ *)

\* C5: once the baseline pass of an input larger than the target has given a
\* file that is at most the target, the run is over: it returned Ok, the
\* output is a copy of the baseline file, no strategy was generated and no
\* worker thread was spawned.
C5_BaselineCopied ==
    (original_size > TargetKb /\ opt_size # NoSize /\ opt_size <= TargetKb)
        => /\ cpc = "done"
           /\ ret = "Ok"
           /\ output = BaselineFile
           /\ strategies = <<>>
           /\ spawned = 0
           /\ AllIdle

\* C5: a run whose baseline file is exactly as large as the target has ended.
C5_BaselineAtTarget ==
    /\ cpc = "done"
    /\ original_size > TargetKb
    /\ opt_size = TargetKb
    /\ output = BaselineFile
    /\ BaselineFile \in created

(* ------------------------------- C6 ------------------------------------ *)

\* The step that takes the next result from the channel.
Receives == cpc = "recv" /\ chan # <<>> /\ chan' = Tail(chan)

\* The result a Receives step takes.
Received == Head(chan)

IsCandidate(r) == r.success /\ r.file # NoFile

\* Results are taken in arrival order, and a success of size at most the
\* target becomes the winner: target_found is set and the Coordinator goes
\* to the copy.
AdoptsFirstSuccess ==
    (Receives /\ IsCandidate(Received) /\ Received.size <= TargetKb)
        => /\ found_solution'
           /\ found_target'
           /\ best_file' = Received.file
           /\ best_size' = Received.size
           /\ cpc' = "copy"

\* With a winner the Coordinator takes no further result and waits for no
\* worker; without one no result of size at most the target has been taken.
StopsAtWinner ==
    /\ found_solution => /\ ~Receives
                         /\ found_solution'
                         /\ best_file' = best_file
                         /\ cpc' \notin {"recv", "join"}
    /\ (~found_solution /\ found_solution')
           => (Receives /\ IsCandidate(Received) /\ Received.size <= TargetKb)

\* The output of a run with a winner is the winner's file, which is at most
\* the target and is the result of a worker.
WinnerIsOutput ==
    (found_solution /\ cpc = "done")
        => /\ ret = "Ok"
           /\ output = best_file
           /\ best_size <= TargetKb
           /\ \E w \in Spawned : result[w] = SuccessResult(best_size, output)

\* C6: the Coordinator takes results in arrival order; the first success of
\* size at most the target becomes the winner; on adopting it the
\* Coordinator sets target_found, takes no further result, waits for no
\* worker, and the output is the winner's file, of size at most the target.
C6_FirstSuccessWins ==
    /\ [][AdoptsFirstSuccess /\ StopsAtWinner]_vars
    /\ [](WinnerIsOutput)

\* C6: a run has ended with a winner while another worker was still running
\* or its result still in the channel.
C6_WinnerBeforeOthers ==
    /\ cpc = "done"
    /\ found_solution
    /\ output = best_file
    /\ \/ chan # <<>>
       \/ \E w \in Spawned : wpc[w] # "finished"

(* ------------------------------- C7 ------------------------------------ *)

\* The sizes of the successes the workers reported.
SuccessSizes == {result[w].size : w \in {v \in Spawned : IsCandidate(result[v])}}

\* The run went through the search and has ended.
SearchOver == cpc = "done" /\ best_file # NoFile

\* C7: when the search ends without a success of size at most the target,
\* the run returns Ok and reports that the target was not reached, and the
\* output is the smallest of the baseline file and all the successes of the
\* workers, the baseline file when no success is strictly smaller.
C7_SmallestWins ==
    (SearchOver /\ ~found_solution)
        => /\ ret = "Ok"
           /\ notice
           /\ \A size \in SuccessSizes : size > TargetKb
           /\ best_size = MinOf({opt_size} \cup SuccessSizes)
           /\ output = best_file
           /\ IF best_size = opt_size
              THEN output = BaselineFile
              ELSE \E w \in Spawned : result[w] = SuccessResult(best_size, output)

\* C7: a run without a winner has ended; one worker's success is the output
\* and another worker's success, not smaller, is not.
C7_BestEffortOutput ==
    /\ SearchOver
    /\ ~found_solution
    /\ \E w1, w2 \in Spawned :
        /\ w1 # w2
        /\ result[w1] = SuccessResult(best_size, output)
        /\ IsCandidate(result[w2])
        /\ result[w2].size >= best_size
        /\ best_size < opt_size

(* ------------------------------- C8 ------------------------------------ *)

\* A worker that stops before its base-optimized file is measured reports a
\* result that is not a success and carries no file.
EarlyReturnFails(w) ==
    (wpc[w] \in {"start", "extract", "validate", "base_opt"} /\ wpc'[w] = "returned")
        => ~result'[w].success /\ result'[w].file = NoFile

\* A result that is not a success changes nothing of the Coordinator's
\* choice, and the Coordinator goes on to the next result.
FailureSkipped ==
    (Receives /\ ~Received.success)
        => /\ cpc' = "recv"
           /\ ret' = ret
           /\ best_size' = best_size
           /\ best_file' = best_file
           /\ found_solution' = found_solution

\* Whatever the workers report, the run returns Ok, and its output is the
\* baseline file or the file of a success: the baseline file when every
\* worker failed.
FailuresLeftOut ==
    SearchOver
        => /\ ret = "Ok"
           /\ \/ output = BaselineFile
              \/ \E w \in Spawned : IsCandidate(result[w]) /\ result[w].file = output
           /\ (~found_solution /\ \A w \in Spawned : ~result[w].success)
                  => (output = BaselineFile /\ best_size = opt_size)
           /\ ~found_solution => best_size = MinOf({opt_size} \cup SuccessSizes)

\* C8: a worker that fails reports a result that is not a success; the
\* Coordinator leaves it out of the choice of the winner and goes on taking
\* the other results; the outcome is that of the successes alone, and no
\* failure of a worker makes the run return an error.
C8_WorkerFailureLocal ==
    /\ [][FailureSkipped /\ \A w \in Workers : EarlyReturnFails(w)]_vars
    /\ [](FailuresLeftOut)

\* C8: a run has ended with Ok; nothing was cancelled, one worker failed and
\* the output is the success of another.
C8_OneFailedOtherWon ==
    /\ SearchOver
    /\ ret = "Ok"
    /\ ~found_target
    /\ \E w1, w2 \in Spawned :
        /\ result[w1] = FailedResult
        /\ result[w2] = SuccessResult(best_size, output)

(* ------------------------------- C9 ------------------------------------ *)

\* C9 as stated: with the compressor absent every run ends with
\* GifsicleNotFound, no temporary file created and no worker thread spawned.
C9_AbsentAlwaysFails ==
    (~gifsicle_present /\ cpc = "done")
        => /\ ret = "GifsicleNotFound"
           /\ created = {}
           /\ spawned = 0

\* C9: with the compressor absent no temporary file is ever created and no
\* worker thread ever spawned; a run on an input larger than the target
\* whose frame count can be read ends at the probe with GifsicleNotFound;
\* a run on an input that is at most the target returns Ok, and one whose
\* frame count cannot be read ends with the decoder's error.
C9_AbsentFailsAtProbe ==
    ~gifsicle_present
        => /\ created = {}
           /\ spawned = 0
           /\ AllIdle
           /\ compressor_invoked => (cpc = "done" /\ ret = "GifsicleNotFound")
           /\ (cpc = "done" /\ ~compressor_invoked)
                  => IF original_size <= TargetKb THEN ret = "Ok" ELSE ret = "Image"

\* C9: a run without the compressor has ended with GifsicleNotFound.
C9_NotFoundReturned ==
    /\ ~gifsicle_present
    /\ cpc = "done"
    /\ ret = "GifsicleNotFound"
    /\ original_size > TargetKb

(* ------------------------------- C10 ----------------------------------- *)

\* The step of the copy when the best file is gone.
CopiesWithoutBest == cpc = "copy" /\ cpc' # "copy" /\ best_file \notin on_disk

\* The baseline file, when still present, is copied to the output and the
\* run goes on to its end.
FallsBackToBaseline ==
    (CopiesWithoutBest /\ BaselineFile \in on_disk)
        => /\ output' = BaselineFile
           /\ cpc' = "cleanup"
           /\ ret' = ret

\* With the baseline file gone too the run ends with the given error and
\* writes no output.
FailsWith(error) ==
    (CopiesWithoutBest /\ BaselineFile \notin on_disk)
        => /\ cpc' = "done"
           /\ ret' = error
           /\ output' = output

\* C10 as stated: when the best file is gone at the copy, the baseline file
\* is copied if present, else the run fails with NoValidResults.
C10_FailsNoValidResults ==
    [][FallsBackToBaseline /\ FailsWith("NoValidResults")]_vars

\* C10: when the best file is gone at the copy, the baseline file is copied
\* if present, else the run fails with the error Other ("no valid temporary
\* file to copy").
C10_FailsOther ==
    [][FallsBackToBaseline /\ FailsWith("Other")]_vars

\* C10: the file of a worker's success was the best file, it was gone at the
\* copy, and the baseline file has been copied in its place.
C10_FellBack ==
    /\ cpc = "cleanup"
    /\ best_file # BaselineFile
    /\ best_file \notin on_disk
    /\ output = BaselineFile

(* ------------------------------- C11 ----------------------------------- *)

\* max(3, floor(f * p / 100))
MinFramesOf(f, p) == IF (f * p) \div 100 > 3 THEN (f * p) \div 100 ELSE 3

\* The strategies have been generated.
Generated == cpc = "spawn"

\* C11: for every frame count f >= 2 and every percentage p, every stride of
\* the generated strategies retains at least max(1, min_frames) frames, the
\* frames retained being those of index 0, s, 2s, ... below f.
C11_StrideKeepsMinFrames ==
    (Generated /\ original_frame_count >= 2)
        => \A i \in 1..Len(strategies) :
              Cardinality(SelectedFrames(original_frame_count, strategies[i].skip))
                  >= Max(1, MinFramesOf(original_frame_count, min_frame_percent))

\* C11: a stride was generated for an input of more than ten frames, and it
\* retains fewer than min_frames frames.
C11_TooFewRetained ==
    /\ Generated
    /\ original_frame_count > 10
    /\ \E i \in 1..Len(strategies) :
          Cardinality(SelectedFrames(original_frame_count, strategies[i].skip))
              < MinFramesOf(original_frame_count, min_frame_percent)

(* ------------------------------- C12 ----------------------------------- *)

\* The strategy generation has run on an input whose frame count is 0.
GeneratedFromNoFrame ==
    /\ original_frame_count = 0
    /\ opt_size > TargetKb
    /\ cpc # "generate"

\* C12: when the frame count of the input is 0 the strategy generation fails
\* and the run ends with that error (InvalidInput): no strategy is emitted
\* and no worker thread is spawned.
C12_ZeroFramesRejected ==
    GeneratedFromNoFrame
        => /\ cpc = "done"
           /\ ret = "InvalidInput"
           /\ strategies = <<>>
           /\ spawned = 0

\* C12: a worker thread runs the strategy generated from a frame count of 0,
\* with the delay the wrapped sum gives.
C12_WorkerOnNoFrame ==
    /\ GeneratedFromNoFrame
    /\ spawned = 1
    /\ strategy[1] = [skip |-> 2, delay |-> 9]
    /\ wpc[1] # "idle"

(* ------------------------------- C13 ----------------------------------- *)

\* The temporary files thread w creates.
FilesOf(w) ==
    {FramesFile(w), OptFile(w)} \cup {LossyFile(w, l) : l \in RangeOf(lossy_levels)}

\* The threads other than the one whose result is the winner.
Stragglers == {w \in Spawned : result[w].file = NoFile \/ result[w].file # best_file}

\* C13: after an early winner every file held by a straggler, running or
\* with its result queued in the channel, is deleted in the end: none is on
\* disk when the run is over, after which no thread takes a step.
C13_StragglerFilesDeleted ==
    (cpc = "done" /\ found_solution)
        => \A w \in Stragglers : FilesOf(w) \cap on_disk = {}

\* C13: a run has ended with an early winner while the result of a straggler
\* is queued in the channel, its file on disk.
C13_QueuedFileLeft ==
    /\ cpc = "done"
    /\ found_solution
    /\ chan # <<>>
    /\ chan[1].file \in on_disk
    /\ chan[1].file # best_file

(* ------------------------------- C14 ----------------------------------- *)

\* The threads spawned and not yet finished.
LiveWorkers == {w \in Spawned : wpc[w] # "finished"}

\* C14: at every point of a run the number of worker threads spawned and not
\* yet finished is at most the smaller of the configured number of threads
\* and the number of strategies.
C14_LiveWorkersBounded ==
    Cardinality(LiveWorkers) <= Min(threads, Len(strategies) + spawned)

\* C14: with one configured thread, two worker threads are running.
C14_TwoLiveOneConfigured ==
    /\ threads = 1
    /\ thread_count = 1
    /\ Cardinality(LiveWorkers) = 2

(* ------------------------------- C15 ----------------------------------- *)

\* clamp(ceil(f / min_frames), 2, 10)
MaxStrideOf(f, p) ==
    LET c == (f + MinFramesOf(f, p) - 1) \div MinFramesOf(f, p)
    IN  IF c < 2 THEN 2 ELSE IF c > 10 THEN 10 ELSE c

\* The strides 2..=max_stride in ascending order, then, when f > 30, those
\* of max_stride + 5 and max_stride + 10 that keep floor(f / stride) >=
\* min_frames.
StridesOf(f, p) ==
    [i \in 1..(MaxStrideOf(f, p) - 1) |-> i + 1]
        \o (IF f > 30 /\ f \div (MaxStrideOf(f, p) + 5) >= MinFramesOf(f, p)
            THEN <<MaxStrideOf(f, p) + 5>> ELSE <<>>)
        \o (IF f > 30 /\ f \div (MaxStrideOf(f, p) + 10) >= MinFramesOf(f, p)
            THEN <<MaxStrideOf(f, p) + 10>> ELSE <<>>)

\* One strategy per stride, of delay floor(100 * stride / f) + 10.
StrategiesOf(f, p) ==
    [i \in 1..Len(StridesOf(f, p)) |->
        [skip |-> StridesOf(f, p)[i],
         delay |-> (100 * StridesOf(f, p)[i]) \div f + 10]]

\* C15: for every frame count >= 1 and every percentage the generation ends
\* without overflow and gives exactly the strategies of strides 2..=max_stride
\* followed by the admitted ones of max_stride + 5 and max_stride + 10, each
\* of delay floor(100 * stride / frame_count) + 10, which fits in 16 bits;
\* the list is never empty, and 100 frames at 10% give the strides 2..10.
C15_StrategyList ==
    original_frame_count >= 1
        => /\ cpc \in {"generate", "spawn"}
           /\ Generated
                => /\ strategies = StrategiesOf(original_frame_count, min_frame_percent)
                   /\ strategies # <<>>
                   /\ \A i \in 1..Len(strategies) : strategies[i].delay <= U16Max
                   /\ (original_frame_count = 100 /\ min_frame_percent = 10)
                         => [i \in 1..Len(strategies) |-> strategies[i].skip]
                                = <<2, 3, 4, 5, 6, 7, 8, 9, 10>>

\* C15: a list has been generated that ends with both additional strides.
C15_BothAdditionalStrides ==
    /\ Generated
    /\ original_frame_count > 30
    /\ Len(strategies) = 11
    /\ strategies[10].skip = 15
    /\ strategies[11].skip = 20

(* ------------------------------- C16 ----------------------------------- *)

\* Thread w launches the next lossy trial of its chunk.
LaunchesTrial(w) == wpc[w] = "trial" /\ trial'[w] # trial[w]

\* C16: a worker polls target_found before each lossy trial, so that once
\* target_found is true it launches no new trial: a trial is launched with
\* target_found true only straight after the poll that read it false.
C16_NoTrialOnceFound ==
    [][\A w \in Workers : (LaunchesTrial(w) /\ found_target) => trial[w] = 1]_vars

\* C16: target_found is true and a worker that has run the first trial of
\* its chunk is about to launch the second.
C16_SecondTrialAfterFound ==
    /\ cpc # "done"
    /\ found_target
    /\ \E w \in Workers : wpc[w] = "trial" /\ trial[w] = 2

(* ------------------------------- C17 ----------------------------------- *)

\* C17: once a trial of a worker has given a size that is at most the target
\* the worker stops its sweep: it launches no trial at a higher level.
C17_SweepStopsAtTarget ==
    [][\A w \in Workers :
          LaunchesTrial(w)
              => \A i \in 1..Len(results[w]) : results[w][i][2] > TargetKb]_vars

\* C17: the trial at lossy=30 of a worker has given a size that is at most
\* the target and the worker is about to launch the trial at lossy=60.
C17_TrialAfterTarget ==
    /\ cpc # "done"
    /\ \E w \in Workers :
          /\ wpc[w] = "trial"
          /\ trial[w] = 2
          /\ Len(results[w]) = 1
          /\ results[w][1][1] = 30
          /\ results[w][1][2] <= TargetKb

(* ------------------------------- C18 ----------------------------------- *)

\* The input of the trial thread w launches is its best file, which exists,
\* was never cleaned and is not the extracted file.
TrialFromBest(w) ==
    LaunchesTrial(w)
        => /\ current_best_path[w] = w_best_file[w]
           /\ current_best_path[w] \in on_disk
           /\ cleanup_calls[current_best_path[w]] = 0
           /\ current_best_path[w] # FramesFile(w)
           /\ current_best_path[w] # InputFile

\* The input of the trial is no larger than the output of any earlier trial
\* of the chunk.
TrialFromSmallest(w) ==
    LaunchesTrial(w)
        => \A i \in 1..Len(results[w]) : w_best_size[w] <= results[w][i][2]

Terminated(w) == wpc[w] \in {"returned", "ubs_load", "ubs_cas", "better", "send",
                            "finished"}

\* C19: when a worker has terminated, with whatever outcome, every file it
\* created has been deleted except at most the one its result carries.
C19_WorkerLeavesOnlyResult ==
    \A w \in Workers :
        Terminated(w) => (FilesOf(w) \cap on_disk) \subseteq {result[w].file}

\* C19: a worker whose sweep was cut short by target_found has returned its
\* best file and left another of its files on disk.
C19_SweepCutLeavesFile ==
    \E w \in Workers :
        /\ Terminated(w)
        /\ result[w].success
        /\ result[w].file \in on_disk
        /\ \E l \in RangeOf(SweptLevels) :
              /\ LossyFile(w, l) \in on_disk
              /\ LossyFile(w, l) # result[w].file

(* ------------------------------- C20 ----------------------------------- *)

\* The Coordinator is past its loop over the channel.
Finalizing == cpc \in {"copy", "cleanup"} \/ SearchOver

\* C20: without an early winner the Coordinator copies the best file and
\* cleans up only after every worker has terminated and every result has
\* been received: the channel is empty and each result was taken into
\* account.
C20_FinalizeAfterAll ==
    (Finalizing /\ ~found_solution)
        => /\ chan = <<>>
           /\ \A w \in Spawned : wpc[w] = "finished"
           /\ \A w \in Spawned :
                 result[w].file # NoFile
                     => \/ result[w].file = best_file
                        \/ result[w].file \in RangeOf(files_to_cleanup)

\* C20: the Coordinator is at the copy without an early winner, after two
\* workers have finished and their results have been received.
C20_AllReceived ==
    /\ cpc = "copy"
    /\ ~found_solution
    /\ spawned = 2
    /\ chan = <<>>
    /\ \A w \in Spawned : wpc[w] = "finished" /\ result[w].file # NoFile

(* ------------------------------- C21 ----------------------------------- *)

\* Worker w holds an artifact it measured at a size that reaches the target:
\* its running best inside process_strategy, or the result it returned.
MeasuredAtTarget(w) ==
    \/ w_best_file[w] # NoFile /\ w_best_size[w] <= TargetKb
    \/ result[w].success /\ result[w].file # NoFile /\ result[w].size <= TargetKb

\* A step that stores true into found_target.
SetsFoundTarget == ~found_target /\ found_target'

\* C21: found_target is true only when some worker has produced an artifact
\* measured at a size <= target, the step that sets it follows such a
\* measurement, and once true it is never reset.
C21_NoSpuriousCancellation ==
    /\ [](found_target => \E w \in Workers : MeasuredAtTarget(w))
    /\ [][SetsFoundTarget => \E w \in Workers : MeasuredAtTarget(w)]_vars
    /\ [][found_target => found_target']_vars

\* C21: found_target is set while another worker is still inside
\* process_strategy.
C21_FlagSetDuringSearch ==
    /\ found_target
    /\ cpc = "recv"
    /\ \E w \in Spawned : MeasuredAtTarget(w)
    /\ \E w \in Spawned : wpc[w] \in {"extract", "validate", "base_opt", "chunk_poll",
                                      "trial", "chunk_end"}

(* ------------------------------- C22 ----------------------------------- *)

\* optimize_gif returned Ok with an early winner: the file copied to the
\* output is the winner, measured at a size <= target, and the "target not
\* reached" notice was not printed.
EndsWithEarlyWinner ==
    /\ ret = "Ok"
    /\ found_solution
    /\ best_size <= TargetKb
    /\ output = best_file
    /\ ~notice

\* C22: once found_target is set, the run ends with an early winner; a run
\* that has returned with found_target set did not report that the target
\* was not reached.
C22_FlagLeadsToWinner ==
    /\ found_target ~> EndsWithEarlyWinner
    /\ []((found_target /\ SearchOver) => EndsWithEarlyWinner)

\* C22: the run ended with an early winner after another worker was
\* cancelled by the flag.
C22_WinnerAfterCancellation ==
    /\ EndsWithEarlyWinner
    /\ found_target
    /\ \E w \in Spawned : wpc[w] = "finished" /\ ~result[w].success
    /\ \E w \in Spawned : result[w].success /\ result[w].file = output

(* ------------------------------- C23 ----------------------------------- *)

\* The number of lossy trials thread w has launched when it is in the loop
\* over temp_files.
TrialsLaunched(w) == (chunk[w] - 1) * chunk_size + trial[w]

\* A step in which thread w sends its result.
Sends(w) == wpc[w] = "send" /\ wpc'[w] = "finished" /\ chan' = Append(chan, result[w])

\* optimize_gif has returned.
Returned == ret # "none"

\* C23, as stated: every spawned worker reaches the end of its thread, where
\* its one result is sent.
C23_EveryWorkerSends ==
    \A w \in Workers : (wpc[w] = "start") ~> (wpc[w] = "finished")

\* C23: optimize_gif always returns; a worker launches at most 8 lossy
\* trials and sends at most one result; the channel only grows by a send;
\* and in a run that ends its search without an early winner every spawned
\* worker has sent its result.
C23_RunTerminates ==
    /\ <>Returned
    /\ [](\A w \in Workers :
             wpc[w] = "trial" => /\ TrialsLaunched(w) <= Len(SweptLevels)
                                 /\ TrialsLaunched(w) <= 8)
    /\ [][\A w \in Workers : wpc[w] = "finished" => wpc'[w] = "finished"]_vars
    /\ [][Len(chan') > Len(chan) => \E w \in Spawned : Sends(w)]_vars
    /\ []((SearchOver /\ ~found_solution)
             => \A w \in Spawned : wpc[w] = "finished")

\* C23: optimize_gif returned with an early winner while a spawned worker
\* had not sent its result.
C23_ReturnedBeforeWorkerSent ==
    /\ Returned
    /\ found_solution
    /\ \E w \in Spawned : wpc[w] = "trial" /\ TrialsLaunched(w) = Len(SweptLevels)

(* ------------------------------- C24 ----------------------------------- *)

\* The value get_best_size returns.
SharedBest == FromBits(shared_best_size)

\* The search: from the seeding of the shared state to the return of
\* optimize_gif.
InSearch == cpc \in {"spawn", "recv", "join", "copy", "cleanup"} \/ SearchOver

\* C24: the shared best size holds the baseline size before any worker is
\* spawned; during the search it is a size that is at most the
\* Coordinator's best_size; and when the run ends without an early winner
\* the two are equal.
C24_TrackersAgree ==
    /\ (cpc = "spawn" /\ spawned = 0) => SharedBest = opt_size
    /\ InSearch => (SharedBest # NaN /\ SharedBest <= best_size)
    /\ (SearchOver /\ ~found_solution) => SharedBest = best_size

\* C24: the run ended without an early winner after a worker lowered both
\* trackers below the baseline size.
C24_BothLowered ==
    /\ SearchOver
    /\ ~found_solution
    /\ SharedBest = best_size
    /\ best_size < opt_size
    /\ spawned = 2

(* ------------------------------- C25 ----------------------------------- *)

\* No cleanup() was called on the file and it exists.
Live(file) == file \in on_disk /\ cleanup_calls[file] = 0

\* The Coordinator is at the exists() check before the copy, with a best
\* file.
AtCopy == cpc = "copy" /\ best_file # NoFile

\* C25: at the final copy the Coordinator's best file and the baseline file
\* are live, and so is every file queued in files_to_cleanup; the file
\* copied is the best file, and the error after the fallback is never
\* returned.
C25_WinnerLiveAtCopy ==
    /\ AtCopy => /\ Live(best_file)
                 /\ Live(BaselineFile)
                 /\ \A file \in RangeOf(files_to_cleanup) : Live(file)
                 /\ CopySource(best_file, on_disk) = best_file
    /\ output # NoFile /\ best_file # NoFile => output = best_file
    /\ ret # CopyError

\* C25: the Coordinator is at the copy with a worker's file as its best
\* and the superseded baseline file queued for cleanup.
C25_SupersededQueued ==
    /\ AtCopy
    /\ best_file # BaselineFile
    /\ Live(best_file)
    /\ BaselineFile \in RangeOf(files_to_cleanup)
    /\ Len(files_to_cleanup) = 2

====
